---- MODULE Spec2Model ----
(***************************************************************************)
(* A model of MetaFixer (src/src/meta_fixer.py): the garble heuristic, the *)
(* encoding repair cascade, and the batch run() over a folder of audio     *)
(* files.  Text is a sequence of Unicode code points; bytes are 0..255.    *)
(***************************************************************************)
EXTENDS Integers, Sequences, FiniteSets, TLC

\* ------------------------------------------------------------------ bounds
\* longest text over Alphabet given to the pure functions
MaxLen == 2
\* longest target-script string that is corrupted and fed back
MaxTarget == 1
\* most files present under the root folder
MaxFiles == 2

\* ------------------------------------------------------------------ values
\* Python None where a str is expected; no str equals it (-1 is no code point)
None == << -1 >>

\* "Love"
Love == <<76, 111, 118, 101>>
\* U+AC00 (Hangul GA)
Hangul == <<44032>>
\* the bytes B0 A1 (cp949 / euc-kr for U+AC00) read as Latin-1
GarbledKo == <<176, 161>>

\* 'L', four bytes >= 0x80 as Latin-1 characters, U+3042, U+AC00, and U+FF70
\* (above 255 but in none of the three ranges)
Alphabet == {76, 176, 161, 130, 160, 12354, 44032, 65392}

RECURSIVE SeqsUpTo(_, _)
SeqsUpTo(S, n) ==
    IF n = 0 THEN {<<>>}
    ELSE LET shorter == SeqsUpTo(S, n - 1)
         IN  shorter \cup {Append(s, c) : s \in {t \in shorter : Len(t) = n - 1}, c \in S}

\* ------------------------------------------------------------ _is_garbled
\* lines 33-35: the three ranges tested for each character
InExpectedScript(c) ==
    \/ (12352 <= c /\ c <= 12543)   \* "぀" <= c <= "ヿ"
    \/ (19968 <= c /\ c <= 40959)   \* "一" <= c <= "鿿"
    \/ (44032 <= c /\ c <= 55203)   \* "가" <= c <= "힣"

\* the heuristic as its docstring states it: garbled = no expected-script character
is_garbled_as_documented(text) == ~(\E i \in 1..Len(text) : InExpectedScript(text[i]))

\* lines 32-37: any(... for c in text)
_is_garbled(text) == \E i \in 1..Len(text) : InExpectedScript(text[i])

\* ------------------------------------------------------------------ codecs
\* text.encode("latin1"): one byte per character, UnicodeEncodeError above 255
Latin1Encodable(text) == \A i \in 1..Len(text) : text[i] <= 255
latin1_encode(text) == [i \in 1..Len(text) |-> text[i]]

DecodeError == [ok |-> FALSE, text |-> <<>>]
Decoded(t) == [ok |-> TRUE, text |-> t]

\* Python's codecs on the byte values this model uses: the two-byte sequences
\* each codec accepts, with the code point it yields.
cp949_pairs ==
    <<176, 76>> :> 52906 @@ <<176, 111>> :> 52938 @@ <<176, 118>> :> 52945 @@ <<176, 101>> :> 52927 @@
    <<176, 176>> :> 44057 @@ <<176, 161>> :> 44032 @@ <<176, 130>> :> 52951 @@ <<176, 160>> :> 52991 @@
    <<176, 170>> :> 44050 @@ <<176, 162>> :> 44033 @@ <<176, 164>> :> 44039 @@ <<176, 66>> :> 52891 @@
    <<161, 76>> :> 51377 @@ <<161, 111>> :> 51411 @@ <<161, 118>> :> 51422 @@ <<161, 101>> :> 51399 @@
    <<161, 176>> :> 8220 @@ <<161, 161>> :> 12288 @@ <<161, 130>> :> 51431 @@ <<161, 160>> :> 51470 @@
    <<161, 170>> :> 8213 @@ <<161, 162>> :> 12289 @@ <<161, 164>> :> 183 @@ <<161, 66>> :> 51366 @@
    <<130, 76>> :> 44322 @@ <<130, 111>> :> 44362 @@ <<130, 118>> :> 44370 @@ <<130, 101>> :> 44347 @@
    <<130, 176>> :> 44443 @@ <<130, 161>> :> 44426 @@ <<130, 130>> :> 44378 @@ <<130, 160>> :> 44423 @@
    <<130, 170>> :> 44437 @@ <<130, 162>> :> 44427 @@ <<130, 164>> :> 44430 @@ <<130, 66>> :> 44309 @@
    <<160, 76>> :> 51146 @@ <<160, 111>> :> 51183 @@ <<160, 118>> :> 51190 @@ <<160, 101>> :> 51170 @@
    <<160, 176>> :> 51262 @@ <<160, 161>> :> 51241 @@ <<160, 130>> :> 51196 @@ <<160, 160>> :> 51240 @@
    <<160, 170>> :> 51254 @@ <<160, 162>> :> 51242 @@ <<160, 164>> :> 51246 @@ <<160, 66>> :> 51129 @@
    <<170, 76>> :> 52278 @@ <<170, 111>> :> 52323 @@ <<170, 118>> :> 52333 @@ <<170, 101>> :> 52307 @@
    <<170, 176>> :> 12368 @@ <<170, 161>> :> 12353 @@ <<170, 130>> :> 52340 @@ <<170, 160>> :> 52371 @@
    <<170, 170>> :> 12362 @@ <<170, 162>> :> 12354 @@ <<170, 164>> :> 12356 @@ <<170, 66>> :> 52262 @@
    <<162, 76>> :> 51485 @@ <<162, 111>> :> 51516 @@ <<162, 118>> :> 51523 @@ <<162, 101>> :> 51505 @@
    <<162, 176>> :> 720 @@ <<162, 161>> :> 8658 @@ <<162, 130>> :> 51529 @@ <<162, 160>> :> 51567 @@
    <<162, 170>> :> 730 @@ <<162, 162>> :> 8660 @@ <<162, 164>> :> 8707 @@ <<162, 66>> :> 51474 @@
    <<164, 76>> :> 51698 @@ <<164, 111>> :> 51738 @@ <<164, 118>> :> 51745 @@ <<164, 101>> :> 51726 @@
    <<164, 176>> :> 12608 @@ <<164, 161>> :> 12593 @@ <<164, 130>> :> 51751 @@ <<164, 160>> :> 51782 @@
    <<164, 170>> :> 12602 @@ <<164, 162>> :> 12594 @@ <<164, 164>> :> 12596 @@ <<164, 66>> :> 51679

euc_kr_pairs ==
    <<176, 176>> :> 44057 @@ <<176, 161>> :> 44032 @@ <<176, 170>> :> 44050 @@ <<176, 162>> :> 44033 @@
    <<176, 164>> :> 44039 @@ <<161, 176>> :> 8220 @@ <<161, 161>> :> 12288 @@ <<161, 170>> :> 8213 @@
    <<161, 162>> :> 12289 @@ <<161, 164>> :> 183 @@ <<170, 176>> :> 12368 @@ <<170, 161>> :> 12353 @@
    <<170, 170>> :> 12362 @@ <<170, 162>> :> 12354 @@ <<170, 164>> :> 12356 @@ <<162, 176>> :> 720 @@
    <<162, 161>> :> 8658 @@ <<162, 170>> :> 730 @@ <<162, 162>> :> 8660 @@ <<162, 164>> :> 8707 @@
    <<164, 176>> :> 12608 @@ <<164, 161>> :> 12593 @@ <<164, 170>> :> 12602 @@ <<164, 162>> :> 12594 @@
    <<164, 164>> :> 12596

shift_jis_pairs ==
    <<130, 111>> :> 65328 @@ <<130, 118>> :> 65335 @@ <<130, 101>> :> 65318 @@ <<130, 176>> :> 12370 @@
    <<130, 161>> :> 12355 @@ <<130, 130>> :> 65346 @@ <<130, 160>> :> 12354 @@ <<130, 170>> :> 12364 @@
    <<130, 162>> :> 12356 @@ <<130, 164>> :> 12358

euc_jp_pairs ==
    <<176, 176>> :> 26093 @@ <<176, 161>> :> 20124 @@ <<176, 170>> :> 33909 @@ <<176, 162>> :> 21782 @@
    <<176, 164>> :> 38463 @@ <<161, 176>> :> 65342 @@ <<161, 161>> :> 12288 @@ <<161, 170>> :> 65281 @@
    <<161, 162>> :> 12289 @@ <<161, 164>> :> 65292 @@ <<162, 161>> :> 9670 @@ <<162, 170>> :> 8594 @@
    <<162, 162>> :> 9633 @@ <<162, 164>> :> 9651 @@ <<164, 176>> :> 12368 @@ <<164, 161>> :> 12353 @@
    <<164, 170>> :> 12362 @@ <<164, 162>> :> 12354 @@ <<164, 164>> :> 12356

jisx0208_pairs ==
    <<76, 76>> :> 38754 @@ <<76, 111>> :> 24357 @@ <<76, 118>> :> 36493 @@ <<76, 101>> :> 24758 @@
    <<76, 36>> :> 26410 @@ <<76, 66>> :> 36855 @@ <<76, 34>> :> 34067 @@ <<76, 40>> :> 23724 @@
    <<111, 76>> :> 37986 @@ <<111, 111>> :> 38358 @@ <<111, 118>> :> 38446 @@ <<111, 101>> :> 38331 @@
    <<111, 36>> :> 37667 @@ <<111, 66>> :> 37942 @@ <<111, 34>> :> 37666 @@ <<111, 40>> :> 37724 @@
    <<101, 76>> :> 32251 @@ <<101, 111>> :> 32381 @@ <<101, 118>> :> 32400 @@ <<101, 101>> :> 32350 @@
    <<101, 36>> :> 32010 @@ <<101, 66>> :> 32162 @@ <<101, 34>> :> 32028 @@ <<101, 40>> :> 32050 @@
    <<36, 76>> :> 12396 @@ <<36, 111>> :> 12431 @@ <<36, 101>> :> 12421 @@ <<36, 36>> :> 12356 @@
    <<36, 66>> :> 12386 @@ <<36, 34>> :> 12354 @@ <<36, 40>> :> 12360 @@ <<66, 76>> :> 39364 @@
    <<66, 111>> :> 21828 @@ <<66, 118>> :> 29730 @@ <<66, 101>> :> 20195 @@ <<66, 36>> :> 36896 @@
    <<66, 66>> :> 35409 @@ <<66, 34>> :> 34101 @@ <<66, 40>> :> 21363 @@ <<34, 76>> :> 172 @@
    <<34, 118>> :> 9834 @@ <<34, 101>> :> 8730 @@ <<34, 36>> :> 9651 @@ <<34, 34>> :> 9633 @@
    <<34, 40>> :> 8251 @@ <<40, 36>> :> 9488 @@ <<40, 34>> :> 9474 @@ <<40, 40>> :> 9516

\* single bytes a codec decodes on their own
SingleByte(enc, b) ==
    IF b < 128 THEN Decoded(<<b>>)
    ELSE IF enc = "shift_jis" /\ 161 <= b /\ b <= 223
         THEN Decoded(<<65377 + (b - 161)>>)   \* half-width katakana
         ELSE DecodeError

PairsOf(enc) ==
    CASE enc = "cp949" -> cp949_pairs
      [] enc = "euc-kr" -> euc_kr_pairs
      [] enc = "shift_jis" -> shift_jis_pairs
      [] enc = "euc_jp" -> euc_jp_pairs

\* cp949, euc-kr, shift_jis, euc_jp: strict decoding, any bad byte fails the whole
RECURSIVE DecodeMultiByte(_, _)
DecodeMultiByte(enc, bytes) ==
    IF bytes = <<>> THEN Decoded(<<>>)
    ELSE IF SingleByte(enc, bytes[1]).ok
    THEN LET rest == DecodeMultiByte(enc, Tail(bytes))
         IN  IF rest.ok THEN Decoded(SingleByte(enc, bytes[1]).text \o rest.text)
             ELSE DecodeError
    ELSE IF Len(bytes) >= 2 /\ <<bytes[1], bytes[2]>> \in DOMAIN PairsOf(enc)
    THEN LET rest == DecodeMultiByte(enc, Tail(Tail(bytes)))
         IN  IF rest.ok THEN Decoded(<<PairsOf(enc)[<<bytes[1], bytes[2]>>]>> \o rest.text)
             ELSE DecodeError
    ELSE DecodeError

\* iso2022_jp: ESC $ B selects JIS X 0208, ESC ( B selects ASCII
RECURSIVE DecodeIso2022(_, _)
DecodeIso2022(bytes, jis) ==
    IF bytes = <<>> THEN Decoded(<<>>)
    ELSE IF bytes[1] = 27
    THEN IF Len(bytes) >= 3 /\ bytes[2] = 36 /\ bytes[3] = 66
         THEN DecodeIso2022(SubSeq(bytes, 4, Len(bytes)), TRUE)
         ELSE IF Len(bytes) >= 3 /\ bytes[2] = 40 /\ bytes[3] = 66
         THEN DecodeIso2022(SubSeq(bytes, 4, Len(bytes)), FALSE)
         ELSE DecodeError
    ELSE IF ~jis
    THEN IF bytes[1] < 128
         THEN LET rest == DecodeIso2022(Tail(bytes), jis)
              IN  IF rest.ok THEN Decoded(<<bytes[1]>> \o rest.text) ELSE DecodeError
         ELSE DecodeError
    ELSE IF Len(bytes) >= 2 /\ <<bytes[1], bytes[2]>> \in DOMAIN jisx0208_pairs
    THEN LET rest == DecodeIso2022(Tail(Tail(bytes)), jis)
         IN  IF rest.ok THEN Decoded(<<jisx0208_pairs[<<bytes[1], bytes[2]>>]>> \o rest.text)
             ELSE DecodeError
    ELSE DecodeError

\* raw_bytes.decode(enc)
decode(bytes, enc) ==
    CASE enc = "ascii" ->
           IF \A i \in 1..Len(bytes) : bytes[i] < 128 THEN Decoded(bytes) ELSE DecodeError
      [] enc = "iso2022_jp" -> DecodeIso2022(bytes, FALSE)
      [] OTHER -> DecodeMultiByte(enc, bytes)

\* lines 76-82: the fallback list, in order
Candidates == <<"cp949", "euc-kr", "shift_jis", "euc_jp", "iso2022_jp">>

\* chardet.detect(raw_bytes): a statistical guess, any label with any confidence
\* (in percent); "" stands for no label
NoGuess == [encoding |-> "", confidence |-> 0]
DetectorGuesses ==
    {NoGuess} \cup
    [encoding : {Candidates[i] : i \in 1..Len(Candidates)} \cup {"ascii"},
     confidence : {80, 81}]

\* line 69: confidence > 0.8, in percent
Threshold == 80

\* lines 76-88: the first candidate that decodes, or None
RECURSIVE TryCandidates(_, _)
TryCandidates(raw_bytes, i) ==
    IF i > Len(Candidates) THEN [ret |-> None, path |-> "unrecoverable"]
    ELSE LET d == decode(raw_bytes, Candidates[i])
         IN  IF d.ok THEN [ret |-> d.text, path |-> "fallback"]
             ELSE TryCandidates(raw_bytes, i + 1)

\* line 55 returning the text untouched; the variant returns None there
not_garbled_returns_none(text) == [ret |-> None, path |-> "not_garbled"]
NotGarbledReturn(text) == [ret |-> text, path |-> "not_garbled"]

\* lines 50-88, with the branch that produced the value
FixEncodingTrace(text, detected) ==
    IF text = None \/ text = <<>> THEN [ret |-> None, path |-> "empty"]
    ELSE IF ~_is_garbled(text) THEN NotGarbledReturn(text)
    ELSE IF ~Latin1Encodable(text) THEN [ret |-> text, path |-> "not_latin1"]
    ELSE LET raw_bytes == latin1_encode(text)
             guess == IF detected.encoding # "" /\ detected.confidence > Threshold
                      THEN decode(raw_bytes, detected.encoding)
                      ELSE DecodeError
         IN  IF guess.ok THEN [ret |-> guess.text, path |-> "detector"]
             ELSE TryCandidates(raw_bytes, 1)

_fix_encoding(text, detected) == FixEncodingTrace(text, detected).ret

\* ------------------------------------------------- corruption of a target text
\* s.encode(codepage) for the target-script characters U+AC00 and U+3042,
\* "" where the codepage cannot encode the string
TargetChars == {44032, 12354}

EncodeChar(c, codepage) ==
    CASE c = 44032 /\ codepage \in {"cp949", "euc-kr"} -> <<176, 161>>
      [] c = 12354 /\ codepage \in {"cp949", "euc-kr"} -> <<170, 162>>
      [] c = 12354 /\ codepage = "shift_jis" -> <<130, 160>>
      [] c = 12354 /\ codepage = "euc_jp" -> <<164, 162>>
      [] c = 12354 /\ codepage = "iso2022_jp" -> <<36, 34>>
      [] OTHER -> <<>>

Encodable(s, codepage) == \A i \in 1..Len(s) : EncodeChar(s[i], codepage) # <<>>

RECURSIVE EncodeChars(_, _)
EncodeChars(s, codepage) ==
    IF s = <<>> THEN <<>>
    ELSE EncodeChar(s[1], codepage) \o EncodeChars(Tail(s), codepage)

encode(s, codepage) ==
    IF codepage = "iso2022_jp"
    THEN <<27, 36, 66>> \o EncodeChars(s, codepage) \o <<27, 40, 66>>
    ELSE EncodeChars(s, codepage)

\* bytes.decode("latin1"): every byte becomes the character of the same number
latin1_decode(bytes) == [i \in 1..Len(bytes) |-> bytes[i]]

NoSample == [s |-> <<>>, codepage |-> ""]
Samples ==
    {smp \in [s : SeqsUpTo(TargetChars, MaxTarget) \ {<<>>},
              codepage : {Candidates[i] : i \in 1..Len(Candidates)}] :
        Encodable(smp.s, smp.codepage)}

Corrupted(smp) == latin1_decode(encode(smp.s, smp.codepage))

\* ------------------------------------------------------------------- state
VARIABLES
    \* calls of the two static methods
    fpc,        \* "start", "classified", "returned"; "off" in the batch
    sample,     \* the target string and codepage the text was corrupted from
    text,       \* the argument
    detected,   \* what chardet.detect answers for the text's bytes
    garbled,    \* value returned by _is_garbled
    fixed_val,  \* value returned by _fix_encoding
    path,       \* the branch of _fix_encoding that returned
    \* run()
    pc,                 \* position in run(); "off" in the pure-function runs
    err,                \* the exception that ended run(), "" if none
    disk0,              \* the files under the root folder when run() starts
    disk,               \* the files now
    files,              \* self.files
    metadata_original,  \* self.metadata_original
    metadata_fixed,     \* self.metadata_fixed
    fi,                 \* index of the file the repair loop is at
    ti,                 \* index of the next tag of that file
    audio,              \* the open tag store of that file (in memory)
    fixed,              \* the loop's dict `fixed`
    fixed_meta,         \* the loop's dict `fixed_meta`
    log,                \* tag-store writes so far: set and save calls
    report              \* results.csv

fnvars == <<fpc, sample, text, detected, garbled, fixed_val, path>>
runvars == <<pc, err, disk0, disk, files, metadata_original, metadata_fixed,
             fi, ti, audio, fixed, fixed_meta, log, report>>
vars == <<fnvars, runvars>>

\* ------------------------------------------------------ the folder of files
\* line 125: keys
Vocabulary == <<"album", "title", "artist", "genre">>
VocabSet == {Vocabulary[i] : i \in 1..Len(Vocabulary)}

\* line 13: Path(".") / "files"
folder_path == <<"files">>

\* directories of the tree that may hold a file, and the one file name used
Dirs == {<<"files">>, <<"files", "a">>, <<"files", "b">>, <<"files", "a", "b">>}
FileName == "x.mp3"

NoTags == [t \in VocabSet |-> None]
\* the values a tag of a file holds
BatchTexts == {Love, GarbledKo, Hangul}
\* a file's tags: one text in every tag, at most one tag absent
TagProfiles ==
    {[t \in VocabSet |-> IF t \in absent THEN None ELSE v] :
        v \in BatchTexts, absent \in {{}} \cup {{t} : t \in VocabSet}}
\* a file without an ID3 header, or one with a header and tags
Contents ==
    {[header |-> FALSE, tags |-> NoTags]} \cup
    {[header |-> TRUE, tags |-> p] : p \in TagProfiles}

Last(s) == s[Len(s)]
IsPrefix(s, t) == Len(s) <= Len(t) /\ SubSeq(t, 1, Len(s)) = s

\* os.walk(self.folder_path): the folders holding a file, a folder before the
\* folders below it; the order of sibling folders is the file system's
WalkOrders(dirs) ==
    {order \in [1..Cardinality(dirs) -> dirs] :
        /\ \A i, j \in DOMAIN order : i # j => order[i] # order[j]
        /\ \A i, j \in DOMAIN order :
              (i < j) => ~(order[j] # order[i] /\ IsPrefix(order[j], order[i]))}

\* the folders of the tree that hold a file
FoldersOf(d) == {dir \in Dirs : Append(dir, FileName) \in DOMAIN d}

\* line 108: self.folder_path / os.path.split(folder)[1] / file
file_path_of(folder, file) == folder_path \o <<Last(folder)>> \o <<file>>

\* ------------------------------------------------------------------ dicts
\* a dict is the sequence of its items in insertion order; None is a flag
NoneDict == [none |-> TRUE, items |-> <<>>]
Dict(items) == [none |-> FALSE, items |-> items]
Keys(items) == {items[i].key : i \in DOMAIN items}
Get(items, k) == items[CHOOSE i \in DOMAIN items : items[i].key = k].val
\* d[k] = v: a new key goes last, a key already there keeps its place
Put(items, k, v) ==
    IF k \in Keys(items)
    THEN [i \in DOMAIN items |-> IF items[i].key = k THEN [key |-> k, val |-> v] ELSE items[i]]
    ELSE Append(items, [key |-> k, val |-> v])

\* EasyID3(file_path): the file must exist and carry an ID3 header
CanOpen(d, p) == p \in DOMAIN d /\ d[p].header

\* lines 124-134: meta[key] = audio[key][0] if key in audio else None
_extract_metadata(d, p) == [key \in VocabSet |-> IF d[p].tags[key] # None THEN d[p].tags[key] ELSE None]

\* lines 99-103 and 146-147: the file paths in the order the loops visit them
RECURSIVE AllPaths(_)
AllPaths(fs) == IF fs = <<>> THEN <<>> ELSE fs[1].val \o AllPaths(Tail(fs))

\* lines 145-151: meta[file] = f_meta for every file, in order
RECURSIVE ExtractAll(_, _, _)
ExtractAll(d, paths, meta) ==
    IF paths = <<>> THEN meta
    ELSE ExtractAll(d, Tail(paths), Put(meta, paths[1], _extract_metadata(d, paths[1])))

\* lines 191-201
field_names == <<"file_path", "artist_og", "artist_fixed", "title_og", "title_fixed",
                 "album_og", "album_fixed", "genre_og", "genre_fixed">>
\* lines 212 and 216: f"{tag}_og", f"{tag}_fixed"
OgField(tag) ==
    CASE tag = "album" -> "album_og" [] tag = "title" -> "title_og"
      [] tag = "artist" -> "artist_og" [] tag = "genre" -> "genre_og"
FixedField(tag) ==
    CASE tag = "album" -> "album_fixed" [] tag = "title" -> "title_fixed"
      [] tag = "artist" -> "artist_fixed" [] tag = "genre" -> "genre_fixed"

\* lines 208-221: one row per item of self.metadata_original
Row(f_path, meta_og, meta_fixed) ==
    [file_path |-> f_path,
     cells |-> [name \in {OgField(t) : t \in DOMAIN meta_og} \cup
                         {FixedField(t) : t \in DOMAIN meta_fixed} |->
                   IF \E t \in DOMAIN meta_og : name = OgField(t)
                   THEN meta_og[CHOOSE t \in DOMAIN meta_og : name = OgField(t)]
                   ELSE meta_fixed[CHOOSE t \in DOMAIN meta_fixed : name = FixedField(t)]]]

NoReport == [written |-> FALSE, header |-> <<>>, rows |-> <<>>]

SetEvent(file, tag, value) == [op |-> "set", file |-> file, tag |-> tag, value |-> value]
SaveEvent(file) == [op |-> "save", file |-> file, tag |-> "", value |-> None]

\* ------------------------------------------------------ the static methods
\* a text the pure functions are called with
Texts == SeqsUpTo(Alphabet, MaxLen) \cup {None, Love}

InitRunOff ==
    /\ pc = "off" /\ err = ""
    /\ disk0 = <<>> /\ disk = <<>>
    /\ files = NoneDict /\ metadata_original = NoneDict /\ metadata_fixed = NoneDict
    /\ fi = 0 /\ ti = 0 /\ audio = NoTags /\ fixed = <<>> /\ fixed_meta = <<>>
    /\ log = <<>> /\ report = NoReport

InitFn ==
    /\ fpc = "start"
    /\ \/ sample = NoSample /\ text \in Texts
       \/ sample \in Samples /\ text = Corrupted(sample)
    /\ detected \in DetectorGuesses
    /\ garbled = FALSE /\ fixed_val = None /\ path = ""
    /\ InitRunOff

\* MetaFixer._is_garbled(text), text a str
CallIsGarbled ==
    /\ fpc = "start" /\ text # None
    /\ garbled' = _is_garbled(text)
    /\ fpc' = "classified"
    /\ UNCHANGED <<sample, text, detected, fixed_val, path, runvars>>

\* MetaFixer._fix_encoding(text)
CallFixEncoding ==
    /\ fpc \in {"start", "classified"}
    /\ fixed_val' = _fix_encoding(text, detected)
    /\ path' = FixEncodingTrace(text, detected).path
    /\ fpc' = "returned"
    /\ UNCHANGED <<sample, text, detected, garbled, runvars>>

NextFn == CallIsGarbled \/ CallFixEncoding

SpecFn == InitFn /\ [][NextFn]_vars

\* -------------------------------------------------------------------- run()
InitFnOff ==
    /\ fpc = "off" /\ sample = NoSample /\ text = None /\ detected = NoGuess
    /\ garbled = FALSE /\ fixed_val = None /\ path = ""

Init ==
    /\ InitFnOff
    /\ pc = "get_files" /\ err = ""
    /\ \E present \in SUBSET Dirs :
          /\ Cardinality(present) <= MaxFiles
          /\ disk0 \in [{Append(dir, FileName) : dir \in present} -> Contents]
    /\ disk = disk0
    /\ files = NoneDict /\ metadata_original = NoneDict /\ metadata_fixed = NoneDict
    /\ fi = 0 /\ ti = 0 /\ audio = NoTags /\ fixed = <<>> /\ fixed_meta = <<>>
    /\ log = <<>> /\ report = NoReport

\* the exception leaves run(): nothing after it is executed
Raise(e) == pc' = "crashed" /\ err' = e

\* lines 90-112 and 227: get_files(), then the branch of run() on its result
get_files ==
    /\ pc = "get_files"
    /\ \E order \in WalkOrders(FoldersOf(disk)) :
          files' = Dict([i \in DOMAIN order |->
                           [key |-> order[i],
                            val |-> <<file_path_of(order[i], FileName)>>]])
    /\ pc' = IF Len(files'.items) > 0 THEN "get_original_metadata"
             ELSE "fix_extracted_metadata"
    /\ UNCHANGED <<err, disk0, disk, metadata_original, metadata_fixed,
                   fi, ti, audio, fixed, fixed_meta, log, report, fnvars>>

\* lines 136-153: EasyID3(file) raises for a path it cannot open
get_original_metadata ==
    /\ pc = "get_original_metadata"
    /\ LET paths == AllPaths(files.items)
       IN  IF \E i \in DOMAIN paths : ~CanOpen(disk, paths[i])
           THEN Raise("MutagenError") /\ UNCHANGED metadata_original
           ELSE /\ metadata_original' = Dict(ExtractAll(disk, paths, <<>>))
                /\ pc' = "fix_extracted_metadata"
                /\ UNCHANGED err
    /\ UNCHANGED <<disk0, disk, files, metadata_fixed,
                   fi, ti, audio, fixed, fixed_meta, log, report, fnvars>>

\* lines 164-165: entering the loop over self.metadata_original.items()
fix_extracted_metadata ==
    /\ pc = "fix_extracted_metadata"
    /\ IF metadata_original.none
       THEN Raise("AttributeError") /\ UNCHANGED <<fi, fixed_meta>>
       ELSE /\ fi' = 1 /\ fixed_meta' = <<>>
            /\ pc' = "open" /\ UNCHANGED err
    /\ UNCHANGED <<disk0, disk, files, metadata_original, metadata_fixed,
                   ti, audio, fixed, log, report, fnvars>>

\* the file and the metadata of the loop's current item
CurFile == metadata_original.items[fi].key
CurMeta == metadata_original.items[fi].val

\* lines 167-168: audio = EasyID3(file); fixed = {}
open_audio ==
    /\ pc = "open"
    /\ IF CanOpen(disk, CurFile)
       THEN /\ audio' = disk[CurFile].tags /\ fixed' = <<>> /\ ti' = 1
            /\ pc' = "tags" /\ UNCHANGED err
       ELSE Raise("MutagenError") /\ UNCHANGED <<audio, fixed, ti>>
    /\ UNCHANGED <<disk0, disk, files, metadata_original, metadata_fixed,
                   fi, fixed_meta, log, report, fnvars>>

\* audio[tag] = value followed at once by audio.save()
set_item_and_save(tag, value) ==
    /\ audio' = [audio EXCEPT ![tag] = value]
    /\ disk' = [disk EXCEPT ![CurFile].tags = audio']
    /\ log' = log \o <<SetEvent(CurFile, tag, value), SaveEvent(CurFile)>>

\* line 175: audio[tag] = fixed_val, on the open tag store only
set_item(tag, value) ==
    /\ audio' = [audio EXCEPT ![tag] = value]
    /\ disk' = disk
    /\ log' = Append(log, SetEvent(CurFile, tag, value))

\* lines 169-175: one tag of the current file.  Given None, EasyID3's setter
\* either raises or stores a frame without text, by the mutagen version.
fix_tag ==
    /\ pc = "tags" /\ ti <= Len(Vocabulary)
    /\ LET tag == Vocabulary[ti]
           value == CurMeta[tag]
       IN  \E d \in DetectorGuesses :
              LET val == _fix_encoding(value, d)
              IN  /\ fixed' = [t \in DOMAIN fixed \cup {tag} |->
                                  IF t = tag THEN val ELSE fixed[t]]
                  /\ \/ /\ set_item(tag, val)
                        /\ ti' = ti + 1
                        /\ UNCHANGED <<pc, err>>
                     \/ /\ val = None
                        /\ Raise("ValueError")
                        /\ UNCHANGED <<audio, disk, log, ti>>
    /\ UNCHANGED <<disk0, files, metadata_original, metadata_fixed,
                   fi, fixed_meta, report, fnvars>>

\* lines 177-182: fixed_meta[file] = fixed; audio.save(); after the last file,
\* self.metadata_fixed = dict(fixed_meta)
save_audio ==
    /\ pc = "tags" /\ ti > Len(Vocabulary)
    /\ fixed_meta' = Put(fixed_meta, CurFile, fixed)
    /\ disk' = [disk EXCEPT ![CurFile].tags = audio]
    /\ log' = Append(log, SaveEvent(CurFile))
    /\ IF fi < Len(metadata_original.items)
       THEN fi' = fi + 1 /\ pc' = "open" /\ UNCHANGED metadata_fixed
       ELSE /\ metadata_fixed' = Dict(fixed_meta')
            /\ pc' = "output_results" /\ UNCHANGED fi
    /\ UNCHANGED <<err, disk0, files, metadata_original, ti, audio, fixed,
                   report, fnvars>>

\* lines 184-223: the header, then one row per item of self.metadata_original
output_results ==
    /\ pc = "output_results"
    /\ report' = [written |-> TRUE, header |-> field_names,
                  rows |-> [i \in DOMAIN metadata_original.items |->
                              Row(metadata_original.items[i].key,
                                  metadata_original.items[i].val,
                                  Get(metadata_fixed.items, metadata_original.items[i].key))]]
    /\ pc' = "done"
    /\ UNCHANGED <<err, disk0, disk, files, metadata_original, metadata_fixed,
                   fi, ti, audio, fixed, fixed_meta, log, fnvars>>

Next ==
    \/ get_files
    \/ get_original_metadata
    \/ fix_extracted_metadata
    \/ open_audio
    \/ fix_tag
    \/ save_audio
    \/ output_results

Spec == Init /\ [][Next]_vars

\* ------------------------------------------------------------------ claims
ContainsExpectedScript(t) ==
    \E i \in 1..Len(t) :
        \/ t[i] \in 12352..12543
        \/ t[i] \in 19968..40959
        \/ t[i] \in 44032..55203

\* the files run() has enumerated, and the row(s) of the report for a path
Processed == Keys(metadata_original.items)
RowsOf(p) == {i \in DOMAIN report.rows : report.rows[i].file_path = p}
SetsOf(f) == {i \in DOMAIN log : log[i].op = "set" /\ log[i].file = f}
SavesOf(f) == {i \in DOMAIN log : log[i].op = "save" /\ log[i].file = f}

\* C1: for every non-empty text, _is_garbled is false if the text holds a
\* character of the expected-script ranges and true if it holds none.
C1_GarbledIffNoExpectedScript ==
    (fpc = "classified" /\ text # <<>>) => (garbled = ~ContainsExpectedScript(text))

\* C2: a value is set on the tag store for a tag only if the value returned by
\* _fix_encoding is not null and differs from the tag's original value.
C2_SetOnlyIfRepaired ==
    \A i \in DOMAIN log :
        log[i].op = "set" =>
            /\ log[i].value # None
            /\ log[i].value # Get(metadata_original.items, log[i].file)[log[i].tag]

\* C3: every file the repair pass has finished is saved exactly once, the save
\* comes after the set of every tag of the file and no set of the file follows
\* it, and a file that has not been saved is on disk as it was at the start.
C3_SingleSaveAfterLastTag ==
    \A f \in Processed :
        /\ Cardinality(SavesOf(f)) <= 1
        /\ (f \in Keys(fixed_meta)) <=> (Cardinality(SavesOf(f)) = 1)
        /\ \A i \in SavesOf(f) :
              /\ \A j \in SetsOf(f) : j < i
              /\ {log[j].tag : j \in SetsOf(f)} = VocabSet
        /\ (SavesOf(f) = {}) => (disk[f] = disk0[f])

\* a run that failed part-way through the tags of one file after saving another
C3_Witness ==
    /\ pc = "crashed" /\ err = "ValueError"
    /\ \E f, g \in Processed :
          /\ f # g
          /\ Cardinality(SavesOf(f)) = 1 /\ f \in Keys(fixed_meta)
          /\ SetsOf(g) # {} /\ SavesOf(g) = {}

\* C4: a file whose tag store cannot be opened does not abort the batch: the
\* other files are processed and the report is written.
C4_OpenFailureDoesNotAbort ==
    (~files.none /\ \E i \in DOMAIN AllPaths(files.items) :
                        ~CanOpen(disk0, AllPaths(files.items)[i]))
    => /\ err # "MutagenError"
       /\ (pc \in {"done", "crashed"} => report.written)

\* C5: with no file under the root folder run() completes without error and
\* the report is the header row alone.
C5_EmptyFolderHeaderOnly ==
    (DOMAIN disk0 = {}) =>
        /\ pc # "crashed"
        /\ (pc = "done" =>
              report.written /\ report.header = field_names /\ report.rows = <<>>)

\* C6: after run() every file under the root folder, at any depth, has exactly
\* one row of the report, and a file without a readable tag container has a
\* row whose tag columns are all null.
C6_OneRowPerFile ==
    (pc = "done") =>
        \A p \in DOMAIN disk0 :
            /\ Cardinality(RowsOf(p)) = 1
            /\ ~disk0[p].header =>
                  \A i \in RowsOf(p) :
                      \A name \in DOMAIN report.rows[i].cells :
                          report.rows[i].cells[name] = None

\* C7: _fix_encoding applied to the Latin-1 reading of a target-script string's
\* bytes under a codepage of the fallback list returns the string.
C7_RoundTripRecovers ==
    (fpc = "returned" /\ sample # NoSample) => (fixed_val = sample.s)

\* the decoding under the earliest candidate that decodes, None if none does
FirstCandidateDecoding(raw_bytes) ==
    LET ok == {i \in 1..Len(Candidates) : decode(raw_bytes, Candidates[i]).ok}
    IN  IF ok = {} THEN None
        ELSE decode(raw_bytes, Candidates[CHOOSE i \in ok : \A j \in ok : i <= j]).text

DetectorGuessUsed(raw_bytes, d) ==
    d.encoding # "" /\ d.confidence > 80 /\ decode(raw_bytes, d.encoding).ok

\* C8: for a garbled (no expected-script character) input that Latin-1 can
\* encode and whose detector guess is not used, _fix_encoding returns the
\* decoding under the earliest fallback candidate that decodes, None if none.
C8_EarliestCandidateWins ==
    (/\ fpc = "returned" /\ text # None /\ text # <<>>
     /\ ~ContainsExpectedScript(text)
     /\ \A i \in 1..Len(text) : text[i] <= 255
     /\ ~DetectorGuessUsed(latin1_encode(text), detected))
    => (fixed_val = FirstCandidateDecoding(latin1_encode(text)))

\* files whose original title is "Love"
LoveTitled == {f \in Processed : Get(metadata_original.items, f)["title"] = Love}
TitleDone(f) ==
    \/ f \in Keys(fixed_meta)
    \/ pc \in {"tags", "crashed"} /\ fi \in DOMAIN metadata_original.items
          /\ CurFile = f /\ "title" \in DOMAIN fixed

====
